---- MODULE Spec2Model ----
(***************************************************************************)
(* Model of the airspace geometry resolution engine of aipbuilder:         *)
(*   - parse_polygon and its dispatcher (airspace_renderer/airspace.py),   *)
(*   - the flattening of the resolved slots into a polygon shell,          *)
(*   - the border-segment extractor (aipbuilder/country_borders.py),       *)
(*   - the curved-geometry generator, restricted to points on one axis.    *)
(*                                                                         *)
(* Points are integer coordinates in metres along one axis of the planar   *)
(* grid; the geodesic distance of two points is the absolute difference.   *)
(* Python lists are sequences; Python indices are kept 0-based and are     *)
(* converted where a sequence is read (At).                                *)
(***************************************************************************)
EXTENDS Integers, Sequences, FiniteSets, TLC

VARIABLES
    geometry_components,           \* parse_polygon: the component texts
    input_geometry_types,          \* parse_polygon: kind recorded per slot, or None
    vertices,                      \* parse_polygon: point list per slot, or None
    component_indices_to_process,  \* parse_polygon: the work-list
    len_before_iteration,          \* parse_polygon: work-list length at pass start
    it,                            \* position of the for loop's list iterator
    pc,                            \* "while" | "for" | "returned" | "raised"
    raised,                        \* the exception that ended the call, or "none"
    shell,                         \* the sequence handed to shapely.Polygon
    passes,                        \* observer: iterations of the while loop begun
    offered,                       \* observer: <<index, outcome>> of this pass
    calls,                         \* observer: dispatcher calls made so far
    seg,                           \* the border-segment call under test
    free,                          \* the same chain resolved in a free order
    call                           \* the generator or codec call under test

vars == <<geometry_components, input_geometry_types, vertices,
          component_indices_to_process, len_before_iteration, it, pc, raised,
          shell, passes, offered, calls, seg, free, call>>

-----------------------------------------------------------------------------
(* Bounds of the model. *)

\* longest component chain
MaxComponents == 4

\* number of vertices of the border line the provider returns
ProviderBorderLen == 3

\* longest border line given to the border-segment extractor on its own
MaxBorderLen == 4

-----------------------------------------------------------------------------
(* Python values. *)

\* A slot of `vertices` or an anchor that is None.
None == [set |-> FALSE, pts |-> <<>>]

\* A slot of `vertices` holding a list.
Some(points) == [set |-> TRUE, pts |-> points]

\* Python truthiness of `x if lst else None`: None and [] are both falsy.
Truthy(slot) == slot.set /\ Len(slot.pts) > 0

\* seq[i] for a 0-based, non-negative index
At(seq, i) == seq[i + 1]

\* lst[a:b] given as range(a, b)
Range(seq, a, b) == [k \in 1..(IF b > a THEN b - a ELSE 0) |-> seq[a + k]]

Reverse(seq) == [k \in 1..Len(seq) |-> seq[Len(seq) + 1 - k]]

Abs(x) == IF x < 0 THEN -x ELSE x

-----------------------------------------------------------------------------
(* aipbuilder/util.py and aipbuilder/country_borders.py *)

\* default value of get_border_segment's parameter tolerance_m
tolerance_m == 30

\* distance between neighbouring vertices of the modelled border lines: 1 NM
BorderSpacing == 1 * 1852

\* get_distance_m: the geodesic distance, here along the axis
get_distance_m(p1, p2) == Abs(p1 - p2)

\* _get_border_points: the vertices of a border line of len vertices
BorderLine(len) == [j \in 1..len |-> (j - 1) * BorderSpacing]

\* STRtree.nearest: the 0-based indices of the vertices closest to p; the tree
\* returns one of them, and which one is not specified when several tie.
nearest(points, p) ==
    {j \in 0..(Len(points) - 1) :
        \A k \in 0..(Len(points) - 1) :
            get_distance_m(p, At(points, j)) <= get_distance_m(p, At(points, k))}

\* Mutant of PointsCloseEnough: twice the tolerance is accepted.
PointsCloseEnoughTwice(entry_point, border_point, tolerance) ==
    ~(get_distance_m(entry_point, border_point) > 2 * tolerance)

\* _assert_points_close_enough: TRUE when it returns, FALSE when it raises
PointsCloseEnough(entry_point, border_point, tolerance) ==
    ~(get_distance_m(entry_point, border_point) > tolerance)

\* _points_equal with its tolerance of 1e-9 on integer coordinates
PointsEqual(p1, p2) == Abs(p1 - p2) < 1

\* Mutant of ExtractPointsInRange: the wrapped part stops before end_index.
ExtractPointsInRangeShort(start_index, end_index, points) ==
    IF end_index >= start_index
    THEN Range(points, start_index, end_index + 1)
    ELSE Range(points, start_index, Len(points)) \o Range(points, 0, end_index)

\* Mutant of ExtractPointsInRange: the wrapped selection omits the tail.
ExtractPointsInRangeWithoutTail(start_index, end_index, points) ==
    IF end_index >= start_index
    THEN Range(points, start_index, end_index + 1)
    ELSE Range(points, 0, end_index + 1)

\* _extract_points_in_range
ExtractPointsInRange(start_index, end_index, points) ==
    IF end_index >= start_index
    THEN Range(points, start_index, end_index + 1)
    ELSE Range(points, start_index, Len(points)) \o Range(points, 0, end_index + 1)

\* Mutant of ExtractPointsOutsideRange: the selection is not reversed.
ExtractPointsOutsideRangeNotReversed(start_index, end_index, points) ==
    IF start_index >= end_index
    THEN Range(points, end_index, start_index + 1)
    ELSE Range(points, end_index, Len(points)) \o Range(points, 0, start_index + 1)

\* Mutant of ExtractPointsOutsideRange: the wrapped selection omits the head.
ExtractPointsOutsideRangeWithoutHead(start_index, end_index, points) ==
    Reverse(IF start_index >= end_index
            THEN Range(points, end_index, start_index + 1)
            ELSE Range(points, end_index, Len(points)))

\* _extract_points_outside_range
ExtractPointsOutsideRange(start_index, end_index, points) ==
    Reverse(IF start_index >= end_index
            THEN Range(points, end_index, start_index + 1)
            ELSE Range(points, end_index, Len(points))
                     \o Range(points, 0, start_index + 1))

\* Results of get_border_segment.
SegNone == [status |-> "None", pts |-> <<>>]
SegRaise(exc) == [status |-> exc, pts |-> <<>>]
SegLine(points) == [status |-> "LineString", pts |-> points]

\* get_border_segment after the two nearest() lookups returned the indices
\* start_point_index and end_point_index.
GetBorderSegmentAt(start, end, border_points, invert, tolerance, start_point_index, end_point_index) ==
    IF start_point_index = end_point_index THEN SegNone
    ELSE IF ~PointsCloseEnough(start, At(border_points, start_point_index), tolerance)
            \/ ~PointsCloseEnough(end, At(border_points, end_point_index), tolerance)
    THEN SegRaise("ValueError:too far from closest border point")
    ELSE LET segment_point_coords ==
                 IF ~invert
                 THEN ExtractPointsInRange(start_point_index, end_point_index,
                                           border_points)
                 ELSE ExtractPointsOutsideRange(start_point_index, end_point_index,
                                                border_points)
         IN  IF Len(segment_point_coords) = 0 THEN SegRaise("IndexError")
             ELSE IF ~PointsEqual(segment_point_coords[1],
                                  At(border_points, start_point_index))
                     \/ ~PointsEqual(segment_point_coords[Len(segment_point_coords)],
                                     At(border_points, end_point_index))
             THEN SegRaise("AssertionError")
             ELSE SegLine(segment_point_coords)

\* get_border_segment: the set of results the call can have (one per choice
\* the nearest-point tree can make).
get_border_segment(start, end, border_points, invert, tolerance) ==
    {GetBorderSegmentAt(start, end, border_points, invert, tolerance, s, e) :
        s \in nearest(border_points, start), e \in nearest(border_points, end)}

-----------------------------------------------------------------------------
(* airspace_renderer/curved_geometries.py, for points on the axis.          *)
(* Azimuths are counted in quarter turns: 0 is the positive axis, 2 is pi.  *)

\* _nm_to_m
nm_to_m(value_nm) == value_nm * 1852

\* _get_azimuth_rad: atan2(0, dx) is 0 for dx >= 0 and pi for dx < 0
get_azimuth(center, edge) == IF edge - center >= 0 THEN 0 ELSE 2

\* _get_unit_vector, first coordinate: cos of a multiple of pi/2
UnitX(azimuth) == CASE azimuth % 4 = 0 -> 1
                    [] azimuth % 4 = 2 -> -1
                    [] OTHER -> 0

\* _get_edge_point, first coordinate
get_edge_point(center, azimuth, radius_m) == center + UnitX(azimuth) * radius_m

\* Mutant of get_total_angle: a negative difference is returned as it is.
get_total_angle_unwrapped(start_angle, end_angle, direction) ==
    IF direction = "ccw" THEN end_angle - start_angle ELSE start_angle - end_angle

\* _get_total_angle_rad, with 2*pi = 4 quarter turns
get_total_angle(start_angle, end_angle, direction) ==
    LET angle == IF direction = "ccw" THEN end_angle - start_angle
                                      ELSE start_angle - end_angle
    IN  IF angle < 0 THEN angle + 4 ELSE angle

\* The angles the for loop of _arc_around_point_grid_metric visits.
RECURSIVE ArcAngles(_, _, _)
ArcAngles(angle, step, n) ==
    IF n = 0 THEN <<>> ELSE <<angle + step>> \o ArcAngles(angle + step, step, n - 1)

\* _arc_around_point_grid_metric; intermediate_points is such that the
\* increment is a whole number of quarter turns.
arc_around_point(center, start, end, radius_nm, direction, intermediate_points) ==
    LET radius_m == nm_to_m(radius_nm)
        azimuth_start == get_azimuth(center, start)
        azimuth_end == get_azimuth(center, end)
        total_angle == get_total_angle(azimuth_start, azimuth_end, direction)
        angle_increment == total_angle \div (1 + intermediate_points)
        inner == ArcAngles(azimuth_start,
                           angle_increment * (IF direction = "ccw" THEN 1 ELSE -1),
                           intermediate_points)
    IN  <<get_edge_point(center, azimuth_start, radius_m)>>
        \o [k \in 1..Len(inner) |-> get_edge_point(center, inner[k], radius_m)]
        \o <<get_edge_point(center, azimuth_end, radius_m)>>

\* _circle_around_point_grid_metric; intermediate_points divides 4
circle_around_point(center, radius_nm, intermediate_points) ==
    LET radius_m == nm_to_m(radius_nm)
        azimuth_increment == 4 \div intermediate_points
    IN  [k \in 1..intermediate_points |->
            get_edge_point(center, (k - 1) * azimuth_increment, radius_m)]

-----------------------------------------------------------------------------
(* Component texts.  A text is given by what the grammars read of it:       *)
(*   form      the leading keyword, "dms" for a bare coordinate             *)
(*   x         the coordinate the text (or its center) decodes to           *)
(*   dots      the number of decimal points in each seconds field           *)
(*   radius_nm, direction, invert   the further fields                      *)

Text(form, x, dots, radius_nm, direction, invert) ==
    [form |-> form, x |-> x, dots |-> dots, radius_nm |-> radius_nm,
     direction |-> direction, invert |-> invert]

\* The component texts chains are built from.
ComponentTexts ==
    {Text("dms", 0, 1, 0, "", FALSE),          \* on border vertex 0
     Text("dms", 1862, 1, 0, "", FALSE),       \* 10 m from border vertex 1
     Text("dms", 3760, 1, 0, "", FALSE),       \* 56 m from border vertex 2
     Text("dms", 0, 2, 0, "", FALSE),          \* seconds such as "1.2.3"
     Text("CIRCLE", 1852, 0, 1, "", FALSE),
     Text("CIRCLE", 1852, 1, 1, "", FALSE),
     Text("ARC", 1852, 1, 1, "ccw", FALSE),
     Text("BORDER", 0, 0, 0, "", FALSE),
     Text("BORDER", 0, 0, 0, "", TRUE)}

-----------------------------------------------------------------------------
(* airspace_renderer/airspace.py: the four input geometry types *)

\* An anchor: <<>> is None, <<p>> is the point p.
NoAnchor == <<>>

\* VertexInputGeometry.matches: is_valid_dms_format
VertexMatches(definition) == definition.form = "dms"

\* CircleInputGeometry.matches: the center group takes [\d NSEW/]+, no dot
CircleMatches(definition) == definition.form = "CIRCLE" /\ definition.dots = 0

\* ArcInputGeometry.matches: the center group takes [\d NSEW/\.]+
ArcMatches(definition) == definition.form = "ARC"

\* BorderInputGeometry.matches
BorderMatches(definition) == definition.form = "BORDER"

\* Mutant of VertexCanProcess: a vertex is parsed only before its neighbours.
VertexCanProcessOnlyUnanchored(previous, subsequent) ==
    previous = NoAnchor /\ subsequent = NoAnchor

\* VertexInputGeometry.can_process, CircleInputGeometry.can_process
VertexCanProcess(previous, subsequent) == TRUE

CircleCanProcess(previous, subsequent) == TRUE

\* Mutant of ArcCanProcess: only the previous anchor is required.
ArcCanProcessPreviousOnly(previous, subsequent) == previous # NoAnchor

\* ArcInputGeometry.can_process
ArcCanProcess(previous, subsequent) == previous # NoAnchor /\ subsequent # NoAnchor

\* Mutant of BorderCanProcess: a border is never ready.
BorderCanProcessNever(previous, subsequent) == FALSE

\* BorderInputGeometry.can_process
BorderCanProcess(previous, subsequent) == previous # NoAnchor /\ subsequent # NoAnchor

\* Outcomes of one dispatcher call.
Parsed(name, points) == [status |-> "parsed", name |-> name, pts |-> points, exc |-> "none"]
Skipped == [status |-> "skipped", name |-> "None", pts |-> <<>>, exc |-> "none"]
Raises(exc) == [status |-> "raise", name |-> "None", pts |-> <<>>, exc |-> exc]

\* dms_match_to_decimal: float() of a seconds field raises on a second dot
DmsDecodes(match) == match.dots <= 1

\* VertexInputGeometry.parse
VertexParse(match, previous, subsequent) ==
    IF ~DmsDecodes(match) THEN {Raises("ValueError:could not convert string to float")}
    ELSE {Parsed("vertex", <<match.x>>)}

\* CircleInputGeometry.parse (two samples in place of 100)
CircleParse(match, previous, subsequent) ==
    IF ~DmsDecodes(match) THEN {Raises("ValueError:could not convert string to float")}
    ELSE {Parsed("circle", circle_around_point(match.x, match.radius_nm, 2))}

\* ArcInputGeometry.parse (one intermediate point in place of 100)
ArcParse(match, previous, subsequent) ==
    IF ~DmsDecodes(match) THEN {Raises("ValueError:could not convert string to float")}
    ELSE {Parsed("arc", arc_around_point(match.x, previous[1], subsequent[1],
                                         match.radius_nm, match.direction, 1))}

\* BorderProvider.get_border
get_border(border_name) == BorderLine(ProviderBorderLen)

\* Mutant of BorderParse: without a segment the component is left for later.
BorderParseNoSegmentSkips(match, previous, subsequent) ==
    {IF border_segment.status = "None" THEN Skipped
     ELSE IF border_segment.status = "LineString"
     THEN Parsed("border", border_segment.pts)
     ELSE Raises(border_segment.status) :
        border_segment \in get_border_segment(previous[1], subsequent[1],
                                              get_border(match.x), match.invert,
                                              tolerance_m)}

\* BorderInputGeometry.parse
BorderParse(match, previous, subsequent) ==
    {IF border_segment.status = "None" THEN Parsed("border", <<>>)
     ELSE IF border_segment.status = "LineString"
     THEN Parsed("border", border_segment.pts)
     ELSE Raises(border_segment.status) :
        border_segment \in get_border_segment(previous[1], subsequent[1],
                                              get_border(match.x), match.invert,
                                              tolerance_m)}

\* Mutant of NoMatch: an unmatched component is reported as not yet resolvable.
NoMatchSkips(component) == {Skipped}

\* _parse_polygon_component: the raise after the loop over the types
NoMatch(component) == {Raises("ValueError:no input geometry type matches")}

\* _parse_polygon_component: the set of outcomes of the call (one, unless the
\* nearest-point tree has a choice)
parse_polygon_component(component, previous, subsequent) ==
    IF VertexMatches(component)
    THEN IF ~VertexCanProcess(previous, subsequent) THEN {Skipped}
         ELSE VertexParse(component, previous, subsequent)
    ELSE IF CircleMatches(component)
    THEN IF ~CircleCanProcess(previous, subsequent) THEN {Skipped}
         ELSE CircleParse(component, previous, subsequent)
    ELSE IF ArcMatches(component)
    THEN IF ~ArcCanProcess(previous, subsequent) THEN {Skipped}
         ELSE ArcParse(component, previous, subsequent)
    ELSE IF BorderMatches(component)
    THEN IF ~BorderCanProcess(previous, subsequent) THEN {Skipped}
         ELSE BorderParse(component, previous, subsequent)
    ELSE NoMatch(component)

-----------------------------------------------------------------------------
(* airspace_renderer/airspace.py: flattening *)

\* lst[i] for a Python index, which may be negative; Len(lst) <= i raises
PyIndexOk(lst, i) == -Len(lst) <= i /\ i < Len(lst)

PyAt(lst, i) == IF i < 0 THEN lst[Len(lst) + i + 1] ELSE lst[i + 1]

\* _get_border_entry_point_indices: the set the two add() calls build
border_entry_point_indices(types) ==
    UNION {{b - 1, b + 1} : b \in {i \in 0..(Len(types) - 1) : At(types, i) = "border"}}

\* _get_border_entry_point_indices: the exceptions its loop of assertions can
\* end with (the loop runs over a set, in no specified order)
BorderEntryPointErrors(types) ==
    {IF ~PyIndexOk(types, bi) THEN "IndexError" ELSE "AssertionError" :
        bi \in {x \in border_entry_point_indices(types) :
                   ~PyIndexOk(types, x) \/ PyAt(types, x) # "vertex"}}

\* _flatten_vertices: the loop over enumerate(vertices), from index i on
RECURSIVE FlattenFrom(_, _, _)
FlattenFrom(slots, entry, i) ==
    IF i >= Len(slots) THEN <<>>
    ELSE (IF i \notin entry THEN At(slots, i).pts ELSE <<>>)
         \o FlattenFrom(slots, entry, i + 1)

\* _flatten_vertices, when _get_border_entry_point_indices returns
flatten_vertices(slots, types) ==
    FlattenFrom(slots, border_entry_point_indices(types), 0)

-----------------------------------------------------------------------------
(* airspace_renderer/airspace.py: parse_polygon *)

\* list.remove(x): drops the first element equal to x
RECURSIVE ListRemove(_, _)
ListRemove(lst, x) ==
    IF lst = <<>> THEN <<>>
    ELSE IF Head(lst) = x THEN Tail(lst)
    ELSE <<Head(lst)>> \o ListRemove(Tail(lst), x)

NumComponents == Len(geometry_components)

\* Mutant of previous_vertex: the first point of the neighbour, not its last.
previous_vertex_first_point(slots, i) ==
    LET previous_vertices == At(slots, (i - 1) % Len(slots))
    IN  IF Truthy(previous_vertices)
        THEN <<previous_vertices.pts[1]>>
        ELSE NoAnchor

\* previous_vertex of the loop body for index i
previous_vertex(slots, i) ==
    LET previous_vertices == At(slots, (i - 1) % Len(slots))
    IN  IF Truthy(previous_vertices)
        THEN <<previous_vertices.pts[Len(previous_vertices.pts)]>>
        ELSE NoAnchor

\* subsequent_vertex of the loop body for index i
subsequent_vertex(slots, i) ==
    LET subsequent_vertices == At(slots, (i + 1) % Len(slots))
    IN  IF Truthy(subsequent_vertices)
        THEN <<subsequent_vertices.pts[1]>>
        ELSE NoAnchor

\* Mutant of ForHasNext: the loop stops one element early.
ForHasNextOffByOne == it < Len(component_indices_to_process) - 1

\* The index the for loop yields next, if it yields one.
ForHasNext == it < Len(component_indices_to_process)

ForIndex == At(component_indices_to_process, it)

\* The outcomes of the dispatcher call of the loop body for index i.
Dispatch(i) ==
    parse_polygon_component(At(geometry_components, i),
                            previous_vertex(vertices, i),
                            subsequent_vertex(vertices, i))

\* No border-segment call is in progress while parse_polygon runs.
SegIdle == [phase |-> "idle"]

\* No free-order run is made.
FreeIdle == [status |-> "idle"]

\* No generator or codec call is under test while parse_polygon runs.
CallIdle == [fn |-> "idle"]

\* parse_polygon is called on a chain of component texts drawn from texts.
InitChain(texts) ==
    /\ \E n \in 1..MaxComponents :
          /\ geometry_components \in [1..n -> texts]
          /\ input_geometry_types = [k \in 1..n |-> "None"]
          /\ vertices = [k \in 1..n |-> None]
          /\ component_indices_to_process = [k \in 1..n |-> k - 1]
    /\ len_before_iteration = 0
    /\ it = 0
    /\ pc = "while"
    /\ raised = "none"
    /\ shell = None
    /\ passes = 0
    /\ offered = <<>>
    /\ calls = 0
    /\ seg = SegIdle
    /\ call = CallIdle

InitPolygon == InitChain(ComponentTexts) /\ free = FreeIdle

\* while len(component_indices_to_process): a pass begins
BeginPass ==
    /\ pc = "while"
    /\ Len(component_indices_to_process) > 0
    /\ len_before_iteration' = Len(component_indices_to_process)
    /\ it' = 0
    /\ pc' = "for"
    /\ passes' = passes + 1
    /\ offered' = <<>>
    /\ UNCHANGED <<geometry_components, input_geometry_types, vertices,
                   component_indices_to_process, raised, shell, calls, seg, free, call>>

\* Mutant of ComponentParsed: the last index of the work-list is removed, not
\* the index that was parsed.
ComponentParsedRemovesLast ==
    /\ pc = "for"
    /\ ForHasNext
    /\ \E out \in Dispatch(ForIndex) :
          /\ out.status = "parsed"
          /\ component_indices_to_process' =
                 SubSeq(component_indices_to_process, 1,
                        Len(component_indices_to_process) - 1)
          /\ input_geometry_types' =
                 [input_geometry_types EXCEPT ![ForIndex + 1] = out.name]
          /\ vertices' = [vertices EXCEPT ![ForIndex + 1] = Some(out.pts)]
          /\ offered' = Append(offered, <<ForIndex, "parsed">>)
    /\ it' = it + 1
    /\ calls' = calls + 1
    /\ UNCHANGED <<geometry_components, len_before_iteration, pc, raised, shell,
                   passes, seg, free, call>>

\* Mutant of ComponentParsed: the kind recorded is always "vertex".
ComponentParsedRecordsVertex ==
    /\ pc = "for"
    /\ ForHasNext
    /\ \E out \in Dispatch(ForIndex) :
          /\ out.status = "parsed"
          /\ component_indices_to_process' =
                 ListRemove(component_indices_to_process, ForIndex)
          /\ input_geometry_types' =
                 [input_geometry_types EXCEPT ![ForIndex + 1] = "vertex"]
          /\ vertices' = [vertices EXCEPT ![ForIndex + 1] = Some(out.pts)]
          /\ offered' = Append(offered, <<ForIndex, "parsed">>)
    /\ it' = it + 1
    /\ calls' = calls + 1
    /\ UNCHANGED <<geometry_components, len_before_iteration, pc, raised, shell,
                   passes, seg, free, call>>

\* loop body: the dispatcher returned vertices for the index
ComponentParsed ==
    /\ pc = "for"
    /\ ForHasNext
    /\ \E out \in Dispatch(ForIndex) :
          /\ out.status = "parsed"
          /\ component_indices_to_process' =
                 ListRemove(component_indices_to_process, ForIndex)
          /\ input_geometry_types' =
                 [input_geometry_types EXCEPT ![ForIndex + 1] = out.name]
          /\ vertices' = [vertices EXCEPT ![ForIndex + 1] = Some(out.pts)]
          /\ offered' = Append(offered, <<ForIndex, "parsed">>)
    /\ it' = it + 1
    /\ calls' = calls + 1
    /\ UNCHANGED <<geometry_components, len_before_iteration, pc, raised, shell,
                   passes, seg, free, call>>

\* Mutant of ComponentSkipped: the index is removed although nothing was parsed.
ComponentSkippedDropsIndex ==
    /\ pc = "for"
    /\ it < Len(component_indices_to_process)
    /\ \E out \in Dispatch(At(component_indices_to_process, it)) : out.status = "skipped"
    /\ component_indices_to_process' =
           ListRemove(component_indices_to_process, At(component_indices_to_process, it))
    /\ offered' = Append(offered, <<At(component_indices_to_process, it), "skipped">>)
    /\ it' = it + 1
    /\ calls' = calls + 1
    /\ UNCHANGED <<geometry_components, input_geometry_types, vertices,
                   len_before_iteration, pc, raised, shell, passes, seg, free, call>>

\* loop body: the dispatcher returned (None, None)
ComponentSkipped ==
    /\ pc = "for"
    /\ ForHasNext
    /\ \E out \in Dispatch(ForIndex) : out.status = "skipped"
    /\ offered' = Append(offered, <<ForIndex, "skipped">>)
    /\ it' = it + 1
    /\ calls' = calls + 1
    /\ UNCHANGED <<geometry_components, input_geometry_types, vertices,
                   component_indices_to_process, len_before_iteration, pc, raised,
                   shell, passes, seg, free, call>>

\* Mutant of ComponentRaised: the exception is recorded and the loop goes on.
ComponentRaisedContinues ==
    /\ pc = "for"
    /\ ForHasNext
    /\ \E out \in Dispatch(ForIndex) :
          /\ out.status = "raise"
          /\ raised' = out.exc
    /\ offered' = Append(offered, <<ForIndex, "raise">>)
    /\ it' = it + 1
    /\ calls' = calls + 1
    /\ UNCHANGED <<geometry_components, input_geometry_types, vertices,
                   component_indices_to_process, len_before_iteration, pc, shell,
                   passes, seg, free, call>>

\* loop body: the dispatcher raised
ComponentRaised ==
    /\ pc = "for"
    /\ ForHasNext
    /\ \E out \in Dispatch(ForIndex) :
          /\ out.status = "raise"
          /\ raised' = out.exc
    /\ offered' = Append(offered, <<ForIndex, "raise">>)
    /\ pc' = "raised"
    /\ calls' = calls + 1
    /\ UNCHANGED <<geometry_components, input_geometry_types, vertices,
                   component_indices_to_process, len_before_iteration, it, shell,
                   passes, seg, free, call>>

\* the for loop is exhausted and the pass removed an index
PassDone ==
    /\ pc = "for"
    /\ ~ForHasNext
    /\ len_before_iteration # Len(component_indices_to_process)
    /\ pc' = "while"
    /\ UNCHANGED <<geometry_components, input_geometry_types, vertices,
                   component_indices_to_process, len_before_iteration, it, raised,
                   shell, passes, offered, calls, seg, free, call>>

\* The values the message of the RuntimeError of a pass without progress
\* interpolates: f"no progress made with {len_before_iteration} components
\* remaining".
NoProgressMessageValues == <<len_before_iteration>>

\* Mutant of NoProgress: the pass is repeated instead of raising.
NoProgressRetries ==
    /\ pc = "for"
    /\ ~ForHasNext
    /\ len_before_iteration = Len(component_indices_to_process)
    /\ pc' = "while"
    /\ UNCHANGED <<geometry_components, input_geometry_types, vertices,
                   component_indices_to_process, len_before_iteration, it, raised,
                   shell, passes, offered, calls, seg, free, call>>

\* the for loop is exhausted and the pass removed nothing
NoProgress ==
    /\ pc = "for"
    /\ ~ForHasNext
    /\ len_before_iteration = Len(component_indices_to_process)
    /\ raised' = "RuntimeError:no progress made"
    /\ pc' = "raised"
    /\ UNCHANGED <<geometry_components, input_geometry_types, vertices,
                   component_indices_to_process, len_before_iteration, it, shell,
                   passes, offered, calls, seg, free, call>>

\* the while loop ends and _flatten_vertices returns the shell
ReturnPolygon ==
    /\ pc = "while"
    /\ Len(component_indices_to_process) = 0
    /\ BorderEntryPointErrors(input_geometry_types) = {}
    /\ shell' = Some(flatten_vertices(vertices, input_geometry_types))
    /\ pc' = "returned"
    /\ UNCHANGED <<geometry_components, input_geometry_types, vertices,
                   component_indices_to_process, len_before_iteration, it, raised,
                   passes, offered, calls, seg, free, call>>

\* the while loop ends and _get_border_entry_point_indices raises
FlattenRaised ==
    /\ pc = "while"
    /\ Len(component_indices_to_process) = 0
    /\ \E exc \in BorderEntryPointErrors(input_geometry_types) : raised' = exc
    /\ pc' = "raised"
    /\ UNCHANGED <<geometry_components, input_geometry_types, vertices,
                   component_indices_to_process, len_before_iteration, it, shell,
                   passes, offered, calls, seg, free, call>>

NextPolygon ==
    \/ BeginPass
    \/ ComponentParsed
    \/ ComponentSkipped
    \/ ComponentRaised
    \/ PassDone
    \/ NoProgress
    \/ ReturnPolygon
    \/ FlattenRaised

Init == InitPolygon

Next == NextPolygon

Spec == Init /\ [][Next]_vars

-----------------------------------------------------------------------------
(* aipbuilder/country_borders.py: get_border_segment called on its own *)

\* Anchors offered to the extractor for a border line of len vertices: on a
\* vertex, 10 m and 56 m beside one, and halfway between vertices 0 and 1.
BorderAnchors(len) ==
    {(j * BorderSpacing) + o : j \in 0..(len - 1), o \in {0, 10, 56}}
        \cup {BorderSpacing \div 2}

SegPending == [status |-> "pending", pts |-> <<>>]

\* parse_polygon does not run while the extractor is exercised on its own.
InitSegment ==
    /\ \E len \in 2..MaxBorderLen :
       \E start \in BorderAnchors(len), end \in BorderAnchors(len), invert \in BOOLEAN :
          seg = [phase |-> "call", start |-> start, end |-> end,
                 border |-> BorderLine(len), invert |-> invert,
                 start_point_index |-> -1, end_point_index |-> -1,
                 result |-> SegPending]
    /\ geometry_components = <<>>
    /\ input_geometry_types = <<>>
    /\ vertices = <<>>
    /\ component_indices_to_process = <<>>
    /\ len_before_iteration = 0
    /\ it = 0
    /\ pc = "idle"
    /\ raised = "none"
    /\ shell = None
    /\ passes = 0
    /\ offered = <<>>
    /\ calls = 0
    /\ free = FreeIdle
    /\ call = CallIdle

\* get_border_segment(start, end, border, invert) with the default tolerance
GetBorderSegment ==
    /\ seg.phase = "call"
    /\ \E s \in nearest(seg.border, seg.start), e \in nearest(seg.border, seg.end) :
          seg' = [seg EXCEPT !.phase = "done",
                             !.start_point_index = s,
                             !.end_point_index = e,
                             !.result = GetBorderSegmentAt(seg.start, seg.end, seg.border,
                                                           seg.invert, tolerance_m, s, e)]
    /\ UNCHANGED <<geometry_components, input_geometry_types, vertices,
                   component_indices_to_process, len_before_iteration, it, pc, raised,
                   shell, passes, offered, calls, free, call>>

NextSegment == GetBorderSegment

SpecSegment == InitSegment /\ [][NextSegment]_vars

-----------------------------------------------------------------------------
(* Properties of parse_polygon and of flattening *)

Terminated == pc \in {"returned", "raised"}

NoProgressError == "RuntimeError:no progress made"

UnrecognizedError == "ValueError:no input geometry type matches"

Indices == 0..(NumComponents - 1)

Resolved(i) == At(vertices, i).set

\* The kind whose grammar matches the text at index i, "None" if none does.
KindOf(i) ==
    LET c == At(geometry_components, i)
    IN  IF VertexMatches(c) THEN "vertex"
        ELSE IF CircleMatches(c) THEN "circle"
        ELSE IF ArcMatches(c) THEN "arc"
        ELSE IF BorderMatches(c) THEN "border"
        ELSE "None"

\* Flattening was entered: the while loop ended with an empty work-list.
FlattenEntered == Terminated /\ Len(component_indices_to_process) = 0

\* The indices next to a Border slot, taken circularly.
CircularEntryPoints ==
    {i \in Indices : \E b \in Indices :
        /\ At(input_geometry_types, b) = "border"
        /\ i \in {(b - 1) % NumComponents, (b + 1) % NumComponents}}

RECURSIVE ConcatExcept(_, _, _)
ConcatExcept(slots, excluded, i) ==
    IF i >= Len(slots) THEN <<>>
    ELSE (IF i \in excluded THEN <<>> ELSE At(slots, i).pts)
         \o ConcatExcept(slots, excluded, i + 1)

\* C1 (as claimed): for every fully resolved ring in which the circular
\* neighbours of every Border slot are Vertex slots, flattening returns the
\* concatenation, in index order, of the slots that are not a circular neighbour
\* of a Border slot, wherever the Border slot is (index 0 and N-1 included).
C1_FlattenSkipsCircularNeighbours ==
    (FlattenEntered
        /\ \A i \in CircularEntryPoints : At(input_geometry_types, i) = "vertex")
    => /\ pc = "returned"
       /\ shell = Some(ConcatExcept(vertices, CircularEntryPoints, 0))

\* The ring [Vertex, Arc, Vertex, Border].
RingVertexArcVertexBorder ==
    /\ NumComponents = 4
    /\ KindOf(0) = "vertex" /\ KindOf(1) = "arc"
    /\ KindOf(2) = "vertex" /\ KindOf(3) = "border"

\* C2 (as claimed): resolving the ring [Vertex, Arc, Vertex, Border] never
\* begins a third pass: its work-list is empty after at most 2 passes.
C2_ResolvesInTwoPasses == RingVertexArcVertexBorder => passes <= 2

\* Every component of the chain is of kind Arc or Border.
OnlyArcsAndBorders == \A i \in Indices : KindOf(i) \in {"arc", "border"}

\* C3: a ring of Arc and Border components only never has a slot written and
\* never returns; its first pass skips every index, so that the pass ends with
\* the no-progress error, which is the only way the call ends.
C3_ArcBorderRingFails ==
    (pc # "idle" /\ OnlyArcsAndBorders)
    => /\ \A i \in Indices : ~Resolved(i) /\ At(input_geometry_types, i) = "None"
       /\ Len(component_indices_to_process) = NumComponents
       /\ passes <= 1
       /\ pc # "returned"
       /\ \A k \in 1..Len(offered) : offered[k] = <<k - 1, "skipped">>
       /\ pc = "for" => len_before_iteration = NumComponents
       /\ pc = "raised" => /\ raised = NoProgressError
                           /\ Len(offered) = NumComponents

\* C3 witness: the ring [Arc, Border] has failed with the no-progress error.
C3_Witness ==
    /\ NumComponents = 2
    /\ KindOf(0) = "arc" /\ KindOf(1) = "border"
    /\ pc = "raised" /\ raised = NoProgressError /\ passes = 1

\* The work-list as a set.
ToProcess ==
    {component_indices_to_process[k] : k \in 1..Len(component_indices_to_process)}

\* The for loop of a pass is exhausted and the pass removed no index.
PassWithoutProgress ==
    /\ pc = "for"
    /\ ~ForHasNext
    /\ len_before_iteration = Len(component_indices_to_process)

\* C4: the no-progress error is raised exactly at the end of a pass that
\* removed no index from its (non-empty) work-list; when it is raised, every
\* index left was offered in that pass and skipped, and the dispatcher still
\* skips each of them on the current slots.
C4_NoProgressExactlyWhenStuck ==
    /\ [](raised = NoProgressError =>
            /\ pc = "raised"
            /\ len_before_iteration = Len(component_indices_to_process)
            /\ Len(component_indices_to_process) > 0
            /\ Len(offered) = Len(component_indices_to_process)
            /\ \A k \in 1..Len(offered) :
                  offered[k] = <<component_indices_to_process[k], "skipped">>
            /\ \A i \in ToProcess : Dispatch(i) = {Skipped})
    /\ [][PassWithoutProgress => raised' = NoProgressError]_vars
    /\ [][(raised # NoProgressError /\ raised' = NoProgressError)
            => PassWithoutProgress]_vars

\* C4 witness: the error is raised with two indices left after a pass that
\* followed a pass with progress.
C4_Witness ==
    /\ raised = NoProgressError
    /\ passes >= 2
    /\ Len(component_indices_to_process) >= 2

\* C5: every call ends, by returning or by raising, after at most N passes;
\* a completed pass that does not raise has removed at least one index.
C5_Terminates ==
    /\ <>Terminated
    /\ [](passes <= NumComponents)
    /\ [][(pc = "for" /\ pc' = "while")
            => Len(component_indices_to_process) < len_before_iteration]_vars

\* C5 witness: a chain of three components returned after three passes.
C5_Witness ==
    /\ NumComponents = 3
    /\ passes = 3
    /\ pc = "returned"

\* Some component text matches none of the four grammars.
HasUnrecognized == \E i \in Indices : KindOf(i) = "None"

\* The exceptions a parser raises (as opposed to the dispatcher, the engine
\* or flattening).
ParserErrors ==
    {"ValueError:could not convert string to float",
     "ValueError:too far from closest border point"}

\* C6: a chain with an unrecognized component never returns a polygon and
\* never ends with the no-progress error: it ends with the unrecognized-
\* component error, unless a parser raised before.
C6_UnrecognizedIsReported ==
    (HasUnrecognized /\ Terminated)
    => /\ pc = "raised"
       /\ raised \in {UnrecognizedError} \cup ParserErrors
       /\ Len(component_indices_to_process) > 0

\* C6 witness: the unrecognized component is the last of three and is
\* reported in a later pass than the first.
C6_Witness ==
    /\ NumComponents = 3
    /\ KindOf(2) = "None"
    /\ raised = UnrecognizedError
    /\ passes >= 2

\* C7: a shell is handed to the polygon constructor only when the work-list
\* is empty and every slot is resolved, and never after an exception; once an
\* exception is raised no dispatcher call is made and no slot is written.
C7_NoPartialPolygon ==
    /\ [](shell.set =>
            /\ pc = "returned"
            /\ raised = "none"
            /\ Len(component_indices_to_process) = 0
            /\ \A i \in Indices : Resolved(i))
    /\ [](pc = "returned" => shell.set)
    /\ [][raised # "none" =>
            UNCHANGED <<vertices, input_geometry_types, calls, shell,
                        component_indices_to_process>>]_vars

\* C7 witness: a parser raised after two slots had been written.
C7_Witness ==
    /\ raised \in ParserErrors
    /\ Cardinality({i \in Indices : Resolved(i)}) >= 2
    /\ ~shell.set

LiveSpec == Spec /\ WF_vars(Next)

-----------------------------------------------------------------------------
(* Properties of get_border_segment *)

SegDone == seg.phase = "done"

\* Both anchors lie within the tolerance of the vertex found for them.
SegWithinTolerance ==
    /\ get_distance_m(seg.start, At(seg.border, seg.start_point_index)) <= tolerance_m
    /\ get_distance_m(seg.end, At(seg.border, seg.end_point_index)) <= tolerance_m

\* The vertices at indices s, s+1, ..., e of points, taken circularly.
CircularWalk(points, s, e) ==
    [k \in 1..(((e - s) % Len(points)) + 1) |-> At(points, (s + k - 1) % Len(points))]

\* C9: with invert = false and nearest indices s # e the call returns the
\* vertices s, s+1, ..., e taken circularly (a plain slice when e >= s, the
\* tail followed by the head otherwise), from vertex s to vertex e; it raises
\* only when an anchor is out of tolerance.
C9_DirectSegment ==
    (SegDone /\ ~seg.invert /\ seg.start_point_index # seg.end_point_index)
    => LET s == seg.start_point_index
           e == seg.end_point_index
           pts == seg.result.pts
       IN  IF SegWithinTolerance
           THEN /\ seg.result = SegLine(CircularWalk(seg.border, s, e))
                /\ pts[1] = At(seg.border, s)
                /\ pts[Len(pts)] = At(seg.border, e)
                /\ e >= s => pts = Range(seg.border, s, e + 1)
                /\ e < s => pts = Range(seg.border, s, Len(seg.border))
                                     \o Range(seg.border, 0, e + 1)
           ELSE seg.result = SegRaise("ValueError:too far from closest border point")

\* C9 witness: a direct segment that wraps around the end of a border line of
\* four vertices.
C9_Witness ==
    /\ SegDone /\ ~seg.invert
    /\ Len(seg.border) = 4
    /\ seg.start_point_index = 2 /\ seg.end_point_index = 1
    /\ seg.result.status = "LineString"

\* C10: with invert = true and nearest indices s # e the segment is the
\* reverse of the direct segment from e to s; it runs from vertex s to vertex e.
C10_InvertedIsReversedDirect ==
    (SegDone /\ seg.invert /\ seg.start_point_index # seg.end_point_index
        /\ SegWithinTolerance)
    => LET s == seg.start_point_index
           e == seg.end_point_index
           pts == seg.result.pts
       IN  /\ seg.result = SegLine(Reverse(ExtractPointsInRange(e, s, seg.border)))
           /\ pts = Reverse(CircularWalk(seg.border, e, s))
           /\ pts[1] = At(seg.border, s)
           /\ pts[Len(pts)] = At(seg.border, e)

\* C10 witness: an inverted segment whose complement wraps around the end of
\* the border line.
C10_Witness ==
    /\ SegDone /\ seg.invert
    /\ Len(seg.border) = 4
    /\ seg.start_point_index = 1 /\ seg.end_point_index = 3
    /\ seg.result.status = "LineString"
    /\ Len(seg.result.pts) = 3

-----------------------------------------------------------------------------
(* Order independence: the chain parse_polygon was called on is resolved    *)
(* once more, offering the unresolved indices to the dispatcher in any      *)
(* order, with the loop body of parse_polygon.  The run begins when the     *)
(* call has ended.                                                          *)

\* The component texts of the chains resolved twice: those a grammar matches
\* and whose coordinate decodes.
OrderTexts ==
    {c \in ComponentTexts :
        \/ VertexMatches(c) /\ DmsDecodes(c)
        \/ CircleMatches(c)
        \/ ArcMatches(c)
        \/ BorderMatches(c)}

InitOrder ==
    /\ InitChain(OrderTexts)
    /\ free = [status |-> "run",
               vertices |-> [k \in 1..NumComponents |-> None],
               types |-> [k \in 1..NumComponents |-> "None"],
               raised |-> "none"]

FreeUnresolved == {i \in Indices : ~At(free.vertices, i).set}

\* The outcomes of the dispatcher call of the loop body for index i, on the
\* slots of the free-order run.
FreeDispatch(i) ==
    parse_polygon_component(At(geometry_components, i),
                            previous_vertex(free.vertices, i),
                            subsequent_vertex(free.vertices, i))

EngineUnchanged ==
    UNCHANGED <<geometry_components, input_geometry_types, vertices,
                component_indices_to_process, len_before_iteration, it, pc, raised,
                shell, passes, offered, calls, seg, call>>

\* loop body for any unresolved index: the dispatcher returned vertices
FreeParsed ==
    /\ Terminated
    /\ free.status = "run"
    /\ \E i \in FreeUnresolved : \E out \in FreeDispatch(i) :
          /\ out.status = "parsed"
          /\ free' = [free EXCEPT !.vertices[i + 1] = Some(out.pts),
                                  !.types[i + 1] = out.name]
    /\ EngineUnchanged

\* loop body for any unresolved index: the dispatcher raised
FreeRaised ==
    /\ Terminated
    /\ free.status = "run"
    /\ \E i \in FreeUnresolved : \E out \in FreeDispatch(i) :
          /\ out.status = "raise"
          /\ free' = [free EXCEPT !.status = "raised", !.raised = out.exc]
    /\ EngineUnchanged

\* every unresolved index is skipped: a sweep makes no progress
FreeStuck ==
    /\ Terminated
    /\ free.status = "run"
    /\ FreeUnresolved # {}
    /\ \A i \in FreeUnresolved : \A out \in FreeDispatch(i) : out.status = "skipped"
    /\ free' = [free EXCEPT !.status = "raised", !.raised = NoProgressError]
    /\ EngineUnchanged

\* no index is left
FreeResolved ==
    /\ Terminated
    /\ free.status = "run"
    /\ FreeUnresolved = {}
    /\ free' = [free EXCEPT !.status = "resolved"]
    /\ EngineUnchanged

NextOrder ==
    \/ NextPolygon
    \/ FreeParsed
    \/ FreeRaised
    \/ FreeStuck
    \/ FreeResolved

SpecOrder == InitOrder /\ [][NextOrder]_vars

\* parse_polygon ended without an exception of the dispatcher or of a parser:
\* its work-list is empty, or it raised the no-progress error.
EndedResolvedOrStuck ==
    /\ Terminated
    /\ Len(component_indices_to_process) = 0 \/ raised = NoProgressError

\* C8: every order of offering the unresolved indices ends the way
\* parse_polygon ends (all slots resolved, the no-progress error, or an
\* exception of a dispatcher call); when parse_polygon ends with all slots
\* resolved or with the no-progress error, every order leaves the same slots
\* resolved, with the same points in each slot and the same kinds recorded.
C8_OrderIndependent ==
    (Terminated /\ free.status \in {"resolved", "raised"})
    => /\ (free.status = "resolved") <=> (Len(component_indices_to_process) = 0)
       /\ (free.status = "raised" /\ free.raised = NoProgressError)
              <=> (raised = NoProgressError)
       /\ EndedResolvedOrStuck => /\ free.vertices = vertices
                                   /\ free.types = input_geometry_types

\* C8 witness: a chain with an Arc and a Border, resolved in the order of
\* parse_polygon and in another order, is stuck both times with three slots
\* resolved.
C8_Witness ==
    /\ raised = NoProgressError
    /\ free.status = "raised"
    /\ \E i, j \in Indices : KindOf(i) = "arc" /\ KindOf(j) = "border"
    /\ Cardinality({i \in Indices : Resolved(i)}) = 2

-----------------------------------------------------------------------------
(* The two extractors as selections of indices *)

\* A border line whose vertex j is the index j itself: what an extractor
\* returns on it is the sequence of indices it selects.
IndexLine(len) == [j \in 1..len |-> j - 1]

SeqRange(seq) == {seq[k] : k \in 1..Len(seq)}

\* C11: for nearest indices s # e on a border of L vertices, the direct and
\* the complementary selection together contain every index 0..L-1, the only
\* indices in both are s and e, and neither selects an index twice; so each
\* vertex is covered once after the two shared endpoints are de-duplicated.
C11_SegmentsPartitionBorder ==
    (SegDone /\ seg.start_point_index # seg.end_point_index)
    => LET s == seg.start_point_index
           e == seg.end_point_index
           L == Len(seg.border)
           direct == ExtractPointsInRange(s, e, IndexLine(L))
           complementary == ExtractPointsOutsideRange(s, e, IndexLine(L))
       IN  /\ SeqRange(direct) \cup SeqRange(complementary) = 0..(L - 1)
           /\ SeqRange(direct) \cap SeqRange(complementary) = {s, e}
           /\ Cardinality(SeqRange(direct)) = Len(direct)
           /\ Cardinality(SeqRange(complementary)) = Len(complementary)
           /\ Len(direct) + Len(complementary) = L + 2

\* C11 witness: on a border of four vertices the direct selection from 3 to 1
\* wraps around and the complementary one does not.
C11_Witness ==
    /\ SegDone
    /\ Len(seg.border) = 4
    /\ seg.start_point_index = 3 /\ seg.end_point_index = 1
    /\ Len(ExtractPointsInRange(3, 1, IndexLine(4))) = 3
    /\ Len(ExtractPointsOutsideRange(3, 1, IndexLine(4))) = 3

-----------------------------------------------------------------------------
(* Border components inside parse_polygon *)

\* The for loop is about to offer a Border component whose two anchors are set.
BorderOffered ==
    /\ pc = "for"
    /\ ForHasNext
    /\ KindOf(ForIndex) = "border"
    /\ BorderCanProcess(previous_vertex(vertices, ForIndex),
                        subsequent_vertex(vertices, ForIndex))

\* The border vertices nearest to the two anchors of the Border at index i.
NearestToPrevious(i) ==
    nearest(get_border(At(geometry_components, i).x), previous_vertex(vertices, i)[1])

NearestToSubsequent(i) ==
    nearest(get_border(At(geometry_components, i).x), subsequent_vertex(vertices, i)[1])

\* Both anchors of the Border at index i map to the same nearest border vertex.
AnchorsCoincide(i) ==
    \A s \in NearestToPrevious(i), e \in NearestToSubsequent(i) : s = e

\* C12: when both anchors of an offered Border map to the same nearest border
\* vertex, the extractor returns None without raising (whatever the distance
\* of the anchors), and the loop body writes the slot with zero points,
\* records the kind, removes the index and goes on with the next index; a
\* slot with zero points is always such a Border slot, out of the work-list.
C12_NoSegmentResolvesEmpty ==
    /\ [](BorderOffered /\ AnchorsCoincide(ForIndex)
            => Dispatch(ForIndex) = {Parsed("border", <<>>)})
    /\ [][BorderOffered /\ AnchorsCoincide(ForIndex)
            => /\ vertices' = [vertices EXCEPT ![ForIndex + 1] = Some(<<>>)]
               /\ input_geometry_types' =
                      [input_geometry_types EXCEPT ![ForIndex + 1] = "border"]
               /\ component_indices_to_process' =
                      ListRemove(component_indices_to_process, ForIndex)
               /\ pc' = "for" /\ raised' = "none" /\ it' = it + 1]_vars
    /\ [](\A i \in Indices :
             At(vertices, i) = Some(<<>>)
             => /\ At(input_geometry_types, i) = "border"
                /\ i \notin ToProcess)

\* C12 witness: a Border between two Vertex components on the same border
\* vertex was resolved with zero points, the component left was resolved in
\* the pass after, and the call returned.
C12_Witness ==
    /\ NumComponents = 4
    /\ \E i \in Indices : /\ At(input_geometry_types, i) = "border"
                          /\ At(vertices, i) = Some(<<>>)
    /\ passes = 3
    /\ pc = "returned"

-----------------------------------------------------------------------------
(* Tolerance and postconditions of get_border_segment *)

OutOfTolerance == "ValueError:too far from closest border point"

\* C13 (as claimed): whenever an anchor lies farther than tolerance_m from the
\* border vertex nearest to it, the call fails with OutOfTolerance, wherever
\* the other anchor is.
C13_FarAnchorAlwaysFails ==
    (SegDone /\ ~SegWithinTolerance) => seg.result = SegRaise(OutOfTolerance)

\* C13 (amended): when the two anchors map to different nearest border
\* vertices and one of them lies farther than tolerance_m from its vertex, the
\* call fails with OutOfTolerance; when they map to the same vertex the call
\* returns None, however far the anchors are; and the call fails with
\* OutOfTolerance in no other case.
C13_FarAnchorFailsUnlessSameVertex ==
    SegDone
    => /\ (~SegWithinTolerance /\ seg.start_point_index # seg.end_point_index)
              => seg.result = SegRaise(OutOfTolerance)
       /\ seg.start_point_index = seg.end_point_index => seg.result = SegNone
       /\ seg.result.status = OutOfTolerance
              => /\ ~SegWithinTolerance
                 /\ seg.start_point_index # seg.end_point_index

\* C13 witness: the start anchor is 56 m from its nearest vertex, the end
\* anchor lies on another vertex, and the call raised.
C13_Witness ==
    /\ SegDone
    /\ get_distance_m(seg.start, At(seg.border, seg.start_point_index)) = 56
    /\ get_distance_m(seg.end, At(seg.border, seg.end_point_index)) = 0
    /\ seg.start_point_index # seg.end_point_index
    /\ seg.result = SegRaise(OutOfTolerance)

\* C14: the call ends with None, with OutOfTolerance or with a segment, and
\* never with a failed assertion or an index error of the three closing
\* assertions; a segment, for both values of invert, is non-empty, begins at
\* the border vertex nearest to start and ends at the one nearest to end, and
\* each of the two lies within tolerance_m of its anchor.
C14_SegmentPostconditions ==
    SegDone
    => /\ seg.result.status \in {"None", "LineString", OutOfTolerance}
       /\ seg.result.status = "LineString"
              => LET pts == seg.result.pts
                 IN  /\ Len(pts) > 0
                     /\ seg.start_point_index \in nearest(seg.border, seg.start)
                     /\ seg.end_point_index \in nearest(seg.border, seg.end)
                     /\ pts[1] = At(seg.border, seg.start_point_index)
                     /\ pts[Len(pts)] = At(seg.border, seg.end_point_index)
                     /\ get_distance_m(seg.start, pts[1]) <= tolerance_m
                     /\ get_distance_m(seg.end, pts[Len(pts)]) <= tolerance_m

\* C14 witness: an inverted segment of three points on a border of three
\* vertices, from an anchor 10 m beside vertex 0 to vertex 1.
C14_Witness ==
    /\ SegDone /\ seg.invert
    /\ Len(seg.border) = 3
    /\ seg.start = 10 /\ seg.end = BorderSpacing
    /\ seg.result = SegLine(<<0, 2 * BorderSpacing, BorderSpacing>>)

-----------------------------------------------------------------------------
(* The flattened ring *)

\* C15 (as claimed): the sequence a successful call hands to the polygon
\* constructor contains no two index-adjacent equal points (pairs with the
\* closing repetition of the first point left aside), also where the first
\* or last point of an Arc coincides with the neighbouring Vertex.
C15_NoAdjacentDuplicates ==
    pc = "returned"
    => \A k \in 1..(Len(shell.pts) - 1) : shell.pts[k] # shell.pts[k + 1]

-----------------------------------------------------------------------------
(* airspace_renderer/curved_geometries.py: the two generators called on     *)
(* their own, on points <<x, y>> of the plane.  The anchors lie on the axes *)
(* through the center, so that every azimuth is a whole number of quarter   *)
(* turns.                                                                   *)

\* largest radius, and largest distance of an anchor from the center, in NM
MaxRadiusNm == 2

\* largest number of intermediate points of an arc
MaxIntermediatePoints == 3

\* math.atan2(dy, dx) in quarter turns, for a vector along an axis: the
\* result lies in (-pi, pi]
atan2(dy, dx) ==
    IF dy = 0 THEN (IF dx >= 0 THEN 0 ELSE 2)
    ELSE IF dy > 0 THEN 1 ELSE -1

\* _get_azimuth_rad
get_azimuth_rad(center, edge) == atan2(edge[2] - center[2], edge[1] - center[1])

\* _get_unit_vector, second coordinate: sin of a multiple of pi/2
UnitY(azimuth) == CASE azimuth % 4 = 1 -> 1
                    [] azimuth % 4 = 3 -> -1
                    [] OTHER -> 0

\* _get_unit_vector
get_unit_vector(azimuth) == <<UnitX(azimuth), UnitY(azimuth)>>

\* _get_edge_point on points of the plane
get_edge_point_lv95(center_lv95, azimuth, radius_m) ==
    LET u == get_unit_vector(azimuth)
    IN  <<center_lv95[1] + u[1] * radius_m, center_lv95[2] + u[2] * radius_m>>

\* _arc_around_point_grid_metric.  Each generated point is given by its
\* azimuth, multiplied by 1 + intermediate_points so that the increment
\* total_angle / (1 + intermediate_points) stays a whole number; the first and
\* the last point are given by their coordinates as well.
arc_around_point_grid_metric(center_lv95, start_lv95, end_lv95, radius_m, direction, intermediate_points) ==
    LET azimuth_start == get_azimuth_rad(center_lv95, start_lv95)
        azimuth_end == get_azimuth_rad(center_lv95, end_lv95)
        total_angle == get_total_angle(azimuth_start, azimuth_end, direction)
        scale == 1 + intermediate_points
    IN  [azimuths |-> <<azimuth_start * scale>>
                      \o ArcAngles(azimuth_start * scale,
                                   total_angle * (IF direction = "ccw" THEN 1 ELSE -1),
                                   intermediate_points)
                      \o <<azimuth_end * scale>>,
         first |-> get_edge_point_lv95(center_lv95, azimuth_start, radius_m),
         last |-> get_edge_point_lv95(center_lv95, azimuth_end, radius_m)]

\* Mutant of circle_around_point_grid_metric: the ring is closed explicitly.
circle_around_point_closed(center_lv95, radius_m, intermediate_points) ==
    LET azimuth_increment == 4 \div intermediate_points
    IN  [points |-> [k \in 1..(intermediate_points + 1) |->
                        get_edge_point_lv95(center_lv95,
                                            ((k - 1) % intermediate_points) * azimuth_increment,
                                            radius_m)],
         azimuths |-> [k \in 1..(intermediate_points + 1) |->
                          (k - 1) * azimuth_increment]]

\* _circle_around_point_grid_metric, for a number of points that divides 4:
\* the points and the azimuths they are placed at
circle_around_point_grid_metric(center_lv95, radius_m, intermediate_points) ==
    LET azimuth_increment == 4 \div intermediate_points
    IN  [points |-> [k \in 1..intermediate_points |->
                        get_edge_point_lv95(center_lv95, (k - 1) * azimuth_increment,
                                            radius_m)],
         azimuths |-> [k \in 1..intermediate_points |-> (k - 1) * azimuth_increment]]

\* The range of math.atan2 in quarter turns.
Azimuths == {-1, 0, 1, 2}

\* Centers offered to the generators.
Centers == {<<0, 0>>, <<nm_to_m(1), -nm_to_m(2)>>}

\* The point at distance_nm from center in the direction azimuth.
AnchorAt(center, azimuth, distance_nm) ==
    get_edge_point_lv95(center, azimuth, nm_to_m(distance_nm))

\* Numbers of points asked of the circle generator.
CircleSamples == {1, 2, 4}

ArcCalls ==
    {[fn |-> "arc", phase |-> "call", center |-> c,
      start |-> AnchorAt(c, as, ds), end |-> AnchorAt(c, ae, de),
      radius_nm |-> r, direction |-> d, intermediate_points |-> n,
      result |-> [azimuths |-> <<>>, first |-> <<>>, last |-> <<>>]] :
        c \in Centers, as \in Azimuths, ae \in Azimuths,
        ds \in 1..MaxRadiusNm, de \in 1..MaxRadiusNm, r \in 1..MaxRadiusNm,
        d \in {"cw", "ccw"}, n \in 0..MaxIntermediatePoints}

CircleCalls ==
    {[fn |-> "circle", phase |-> "call", center |-> c, radius_nm |-> r,
      intermediate_points |-> n,
      result |-> [points |-> <<>>, azimuths |-> <<>>]] :
        c \in Centers, r \in 0..MaxRadiusNm, n \in CircleSamples}

\* Neither parse_polygon nor the border extractor runs.
EngineIdle ==
    /\ geometry_components = <<>>
    /\ input_geometry_types = <<>>
    /\ vertices = <<>>
    /\ component_indices_to_process = <<>>
    /\ len_before_iteration = 0
    /\ it = 0
    /\ pc = "idle"
    /\ raised = "none"
    /\ shell = None
    /\ passes = 0
    /\ offered = <<>>
    /\ calls = 0
    /\ seg = SegIdle
    /\ free = FreeIdle

InitCurves == call \in ArcCalls \cup CircleCalls /\ EngineIdle

OnlyCallChanges ==
    UNCHANGED <<geometry_components, input_geometry_types, vertices,
                component_indices_to_process, len_before_iteration, it, pc, raised,
                shell, passes, offered, calls, seg, free>>

\* arc_around_point, in the plane
ArcAroundPoint ==
    /\ call.fn = "arc" /\ call.phase = "call"
    /\ call' = [call EXCEPT
                   !.phase = "done",
                   !.result = arc_around_point_grid_metric(
                                  call.center, call.start, call.end,
                                  nm_to_m(call.radius_nm), call.direction,
                                  call.intermediate_points)]
    /\ OnlyCallChanges

\* circle_around_point, in the plane
CircleAroundPoint ==
    /\ call.fn = "circle" /\ call.phase = "call"
    /\ call' = [call EXCEPT
                   !.phase = "done",
                   !.result = circle_around_point_grid_metric(
                                  call.center, nm_to_m(call.radius_nm),
                                  call.intermediate_points)]
    /\ OnlyCallChanges

NextCurves == ArcAroundPoint \/ CircleAroundPoint

SpecCurves == InitCurves /\ [][NextCurves]_vars

ArcDone == call.fn = "arc" /\ call.phase = "done"

CircleDone == call.fn = "circle" /\ call.phase = "done"

\* C16 (as claimed): the first point the arc generator returns is the start
\* anchor and the last is the end anchor, whatever the declared radius.
C16_ArcEndpointsAreAnchors ==
    ArcDone => /\ call.result.first = call.start
               /\ call.result.last = call.end

\* C17: for n intermediate points the arc generator returns n + 2 points: the
\* first at the start azimuth, the k-th intermediate one at
\* start + d * k * sweep / (n + 1) with d = +1 for ccw and -1 for cw, the last
\* at the end azimuth, where sweep is (end - start) mod a full turn for ccw
\* and (start - end) mod a full turn for cw and lies in [0, full turn); the
\* azimuths advance by equal steps in the declared direction, and the end
\* azimuth is the start azimuth advanced by the whole sweep, modulo a full
\* turn.  (Azimuths are in quarter turns, multiplied by n + 1.)
C17_ArcAzimuths ==
    ArcDone
    => LET n == call.intermediate_points
           az == call.result.azimuths
           a_start == get_azimuth_rad(call.center, call.start)
           a_end == get_azimuth_rad(call.center, call.end)
           d == IF call.direction = "ccw" THEN 1 ELSE -1
           sweep == (d * (a_end - a_start)) % 4
       IN  /\ Len(az) = n + 2
           /\ az[1] = a_start * (n + 1)
           /\ \A k \in 1..n : az[k + 1] = a_start * (n + 1) + d * k * sweep
           /\ az[n + 2] = a_end * (n + 1)
           /\ 0 <= sweep /\ sweep < 4
           /\ \A k \in 1..n : d * (az[k + 1] - az[k]) = sweep
           /\ (a_end - (a_start + d * sweep)) % 4 = 0

\* C17 witness: a clockwise arc with three intermediate points from azimuth
\* -pi/2 to azimuth pi, whose raw difference is negative: the sweep is a
\* quarter turn.
C17_Witness ==
    /\ ArcDone
    /\ call.direction = "cw"
    /\ call.result.azimuths = <<-4, -5, -6, -7, 8>>

\* C18: for n >= 1 the circle generator returns n points, the k-th
\* (k = 0..n-1) at azimuth k * (full turn) / n and at planar distance
\* radius_nm * 1852 from the center; no point is placed at a full turn, and
\* with n >= 2 and a positive radius the last point differs from the first:
\* the ring is open.
C18_CircleIsOpenRing ==
    CircleDone
    => LET n == call.intermediate_points
           pts == call.result.points
           az == call.result.azimuths
           r == call.radius_nm * 1852
       IN  /\ n >= 1
           /\ Len(pts) = n /\ Len(az) = n
           /\ \A k \in 0..(n - 1) :
                  /\ az[k + 1] * n = k * 4
                  /\ az[k + 1] < 4
                  /\ (pts[k + 1][1] - call.center[1]) * (pts[k + 1][1] - call.center[1])
                     + (pts[k + 1][2] - call.center[2]) * (pts[k + 1][2] - call.center[2])
                     = r * r
           /\ (n >= 2 /\ r > 0) => pts[n] # pts[1]

\* C18 witness: four points at 2 NM around the second center.
C18_Witness ==
    /\ CircleDone
    /\ call.center = <<1852, -3704>>
    /\ call.result.points = <<<<5556, -3704>>, <<1852, 0>>, <<-1852, -3704>>, <<1852, -7408>>>>

-----------------------------------------------------------------------------
(* Recognition of CIRCLE texts *)

\* The coordinate text v inside the component text "CIRCLE(v, r)" or
\* "ARC(v, r, d)".
CenterText(definition) == Text("dms", definition.x, definition.dots, 0, "", FALSE)

\* C19 (as claimed): a component text "CIRCLE(v, r)" whose v the Vertex
\* grammar accepts is never rejected as an unrecognized component, also when
\* the seconds fields of v hold a decimal point.
C19_CircleTextIsRecognised ==
    (pc = "raised" /\ raised = UnrecognizedError)
    => ~(/\ At(geometry_components, ForIndex).form = "CIRCLE"
         /\ VertexMatches(CenterText(At(geometry_components, ForIndex))))

-----------------------------------------------------------------------------
(* aipbuilder/dms_to_decimal.py: the coordinate matcher and the coordinate  *)
(* parser called on their own.  A coordinate text is given by its named     *)
(* groups; the degrees and minutes groups hold digits of the width the      *)
(* grammar asks for, the seconds groups are sequences of characters.        *)
(* Angles are whole numbers of 1/10000 arc second.                          *)

\* longest seconds field offered to the codec
MaxSecondsLen == 6

\* The characters seconds fields are built from: a digit and the point.
SecondsChars == {"1", "."}

\* the seconds field "00.00"
ZeroSeconds == <<"0", "0", ".", "0", "0">>

SecondsFields ==
    UNION {[1..n -> SecondsChars] : n \in 1..MaxSecondsLen} \cup {ZeroSeconds}

DmsTexts ==
    {[degLat |-> 46, minLat |-> 30, secLat |-> a, hemLat |-> h[1],
      degLon |-> 6, minLon |-> 30, secLon |-> b, hemLon |-> h[2]] :
        a \in SecondsFields, b \in SecondsFields, h \in {<<"N", "E">>, <<"S", "W">>}}

\* the group [\d\.]{2,5} of _REGEX
SecondsGroupMatches(sec) ==
    /\ Len(sec) >= 2 /\ Len(sec) <= 5
    /\ \A k \in 1..Len(sec) : sec[k] \in {"0", "1", "."}

\* _REGEX.fullmatch(dms) is not None
RegexFullmatch(dms) ==
    SecondsGroupMatches(dms.secLat) /\ SecondsGroupMatches(dms.secLon)

\* is_valid_dms_format, as a truth value
is_valid_dms_format(dms) == RegexFullmatch(dms)

RECURSIVE Pow10(_)
Pow10(n) == IF n = 0 THEN 1 ELSE 10 * Pow10(n - 1)

\* int() of a string of digits
RECURSIVE DigitsValue(_)
DigitsValue(digits) ==
    IF digits = <<>> THEN 0
    ELSE 10 * DigitsValue(SubSeq(digits, 1, Len(digits) - 1))
         + (IF digits[Len(digits)] = "1" THEN 1 ELSE 0)

DotPositions(sec) == {k \in 1..Len(sec) : sec[k] = "."}

\* float(sec) returns: at most one point and at least one digit
FloatAccepts(sec) ==
    /\ Cardinality(DotPositions(sec)) <= 1
    /\ Len(sec) - Cardinality(DotPositions(sec)) >= 1

\* float(sec), in 1/10000, for a text float() accepts
FloatValue(sec) ==
    LET dot == IF DotPositions(sec) = {} THEN Len(sec) + 1
               ELSE CHOOSE k \in DotPositions(sec) : TRUE
        fraction == SubSeq(sec, dot + 1, Len(sec))
    IN  DigitsValue(SubSeq(sec, 1, dot - 1)) * Pow10(4)
        + DigitsValue(fraction) * Pow10(4 - Len(fraction))

\* dms_to_decimal, in 1/10000 arc second
dms_to_decimal(d, m, s) == d * 3600 * Pow10(4) + m * 60 * Pow10(4) + s

CodecReturns(x, y) == [status |-> "returned", lon |-> x, lat |-> y]
CodecRaises(exc) == [status |-> exc, lon |-> 0, lat |-> 0]

\* Mutant of dms_match_to_decimal: the pair is returned latitude first.
dms_match_to_decimal_lat_first(match) ==
    IF ~FloatAccepts(match.secLon) \/ ~FloatAccepts(match.secLat)
    THEN CodecRaises("ValueError:could not convert string to float")
    ELSE CodecReturns(
             dms_to_decimal(match.degLat, match.minLat, FloatValue(match.secLat))
                 * (IF match.hemLat = "N" THEN 1 ELSE -1),
             dms_to_decimal(match.degLon, match.minLon, FloatValue(match.secLon))
                 * (IF match.hemLon = "E" THEN 1 ELSE -1))

\* dms_match_to_decimal
dms_match_to_decimal(match) ==
    IF ~FloatAccepts(match.secLon) \/ ~FloatAccepts(match.secLat)
    THEN CodecRaises("ValueError:could not convert string to float")
    ELSE CodecReturns(
             dms_to_decimal(match.degLon, match.minLon, FloatValue(match.secLon))
                 * (IF match.hemLon = "E" THEN 1 ELSE -1),
             dms_to_decimal(match.degLat, match.minLat, FloatValue(match.secLat))
                 * (IF match.hemLat = "N" THEN 1 ELSE -1))

\* dms_string_to_decimal
dms_string_to_decimal(dms) ==
    IF ~RegexFullmatch(dms) THEN CodecRaises("ValueError:invalid value")
    ELSE dms_match_to_decimal(dms)

InitCodec ==
    /\ \E t \in DmsTexts :
          call = [fn |-> "dms", phase |-> "call", text |-> t, matches |-> FALSE,
                  result |-> CodecRaises("none")]
    /\ EngineIdle

\* is_valid_dms_format(text)
IsValidDmsFormat ==
    /\ call.fn = "dms" /\ call.phase = "call"
    /\ call' = [call EXCEPT !.phase = "matched",
                            !.matches = is_valid_dms_format(call.text)]
    /\ OnlyCallChanges

\* dms_string_to_decimal(text)
DmsStringToDecimal ==
    /\ call.fn = "dms" /\ call.phase = "matched"
    /\ call' = [call EXCEPT !.phase = "done",
                            !.result = dms_string_to_decimal(call.text)]
    /\ OnlyCallChanges

NextCodec == IsValidDmsFormat \/ DmsStringToDecimal

SpecCodec == InitCodec /\ [][NextCodec]_vars

CodecDone == call.fn = "dms" /\ call.phase = "done"

\* C20 (as claimed): the matcher accepts a text exactly when the parser
\* returns a pair for it without raising; every seconds field of 2 to 5
\* characters over digits and the point that the matcher accepts is decoded.
C20_MatcherAcceptsWhatParserDecodes ==
    CodecDone => (call.matches <=> call.result.status = "returned")

\* C21: for every text the parser returns a pair for, the pair is
\* (longitude, latitude) in that order, each deg + min/60 + sec/3600 of its own
\* groups (here in 1/10000 arc second: 36000000 per degree, 600000 per
\* minute), the longitude negative exactly when its hemisphere is W and the
\* latitude negative exactly when its hemisphere is S.
C21_DecimalOfOwnFields ==
    (CodecDone /\ call.result.status = "returned")
    => LET t == call.text
           lon == t.degLon * 36000000 + t.minLon * 600000 + FloatValue(t.secLon)
           lat == t.degLat * 36000000 + t.minLat * 600000 + FloatValue(t.secLat)
       IN  /\ call.result.lon = (IF t.hemLon = "W" THEN -lon ELSE lon)
           /\ call.result.lat = (IF t.hemLat = "S" THEN -lat ELSE lat)
           /\ call.result.lon < 0 <=> t.hemLon = "W"
           /\ call.result.lat < 0 <=> t.hemLat = "S"
           /\ FloatValue(ZeroSeconds) = 0
           /\ FloatValue(<<"1", "1", ".", "1">>) = 111000
           /\ FloatValue(<<".", "1", "1">>) = 1100

\* C21 witness: "46 30 00.00 N 006 30 00.00 E" gives (6.5, 46.5) degrees.
C21_Witness ==
    /\ CodecDone
    /\ call.text.secLat = ZeroSeconds /\ call.text.secLon = ZeroSeconds
    /\ call.text.hemLat = "N" /\ call.text.hemLon = "E"
    /\ call.result = CodecReturns(234000000, 1674000000)

-----------------------------------------------------------------------------
(* Passes of parse_polygon *)

\* The for loop of the current pass is exhausted.
PassEnded == pc = "for" /\ ~ForHasNext

\* C22 (as claimed): in every pass each index that is in the work-list when
\* the pass starts is offered to the dispatcher exactly once, in increasing
\* index order, also the indices that follow an index removed earlier in the
\* same pass: when the loop of a pass is exhausted, as many indices were
\* offered as the work-list held at the start of the pass.
C22_PassOffersEveryIndex ==
    PassEnded
    => /\ Len(offered) = len_before_iteration
       /\ \A k \in 1..(Len(offered) - 1) : offered[k][1] < offered[k + 1][1]

-----------------------------------------------------------------------------
(* Anchors supplied to the dispatcher *)

\* The for loop is about to offer ForIndex to the dispatcher.
Offering == pc = "for" /\ ForHasNext

\* C23: whenever an index i is offered, the previous anchor is None exactly
\* when slot (i-1) mod N is Unresolved and the subsequent anchor is None
\* exactly when slot (i+1) mod N is Unresolved; an anchor that is not None is
\* the last point of the previous slot, respectively the first point of the
\* subsequent slot.  No offered index has a neighbour that is Resolved with
\* zero points: a Border resolves only after both its neighbours did, and
\* they are not offered again.
C23_AnchorNoneIffUnresolved ==
    Offering
    => LET N == NumComponents
           p == At(vertices, (ForIndex - 1) % N)
           n == At(vertices, (ForIndex + 1) % N)
       IN  /\ previous_vertex(vertices, ForIndex) = NoAnchor <=> p = None
           /\ subsequent_vertex(vertices, ForIndex) = NoAnchor <=> n = None
           /\ p # None => /\ p.pts # <<>>
                          /\ previous_vertex(vertices, ForIndex) = <<p.pts[Len(p.pts)]>>
           /\ n # None => /\ n.pts # <<>>
                          /\ subsequent_vertex(vertices, ForIndex) = <<n.pts[1]>>

\* An Arc is offered between a resolved Circle of two points and an
\* unresolved component.
C23_Witness ==
    /\ Offering
    /\ At(geometry_components, ForIndex).form = "ARC"
    /\ At(vertices, (ForIndex - 1) % NumComponents) # None
    /\ Len(At(vertices, (ForIndex - 1) % NumComponents).pts) = 2
    /\ At(vertices, (ForIndex + 1) % NumComponents) = None

-----------------------------------------------------------------------------
(* Slots are written once *)

\* C24: each slot is written at most once.  An index that is offered has an
\* Unresolved slot and no recorded kind, so a Resolved index is never offered
\* again; in every step a Resolved slot keeps its point sequence and its
\* kind, at most one slot changes, a slot that changes becomes Resolved
\* together with its kind, and the component texts do not change.
C24_SlotsWrittenOnce ==
    /\ [](Offering => /\ At(vertices, ForIndex) = None
                      /\ At(input_geometry_types, ForIndex) = "None")
    /\ [][/\ geometry_components' = geometry_components
          /\ \A k \in Indices :
                At(vertices, k) # None
                => /\ At(vertices', k) = At(vertices, k)
                   /\ At(input_geometry_types', k) = At(input_geometry_types, k)
          /\ \A j, k \in Indices :
                (At(vertices', j) # At(vertices, j)
                 \/ At(input_geometry_types', j) # At(input_geometry_types, j))
                => /\ At(vertices', j) # None
                   /\ At(input_geometry_types', j) # "None"
                   /\ k # j => /\ At(vertices', k) = At(vertices, k)
                               /\ At(input_geometry_types', k)
                                      = At(input_geometry_types, k)]_vars

\* In a second or later pass a slot has just been written while another slot
\* was Resolved before.
C24_Witness ==
    /\ passes >= 2
    /\ offered # <<>>
    /\ offered[Len(offered)][2] = "parsed"
    /\ \E k \in Indices : k # offered[Len(offered)][1] /\ At(vertices, k) # None
    /\ \E k \in Indices : At(vertices, k) = None

-----------------------------------------------------------------------------
(* Components that are not yet resolvable *)

\* The dispatcher's answer to the offered Arc or Border lacking an anchor,
\* and to Vertex and Circle text.
SkipsOnlyArcAndBorderWithoutAnchor ==
    Offering
    => LET previous == previous_vertex(vertices, ForIndex)
           subsequent == subsequent_vertex(vertices, ForIndex)
           anchorless == previous = NoAnchor \/ subsequent = NoAnchor
       IN  /\ (KindOf(ForIndex) = "arc" /\ anchorless)
              => /\ ~ArcCanProcess(previous, subsequent)
                 /\ Dispatch(ForIndex) = {Skipped}
           /\ (KindOf(ForIndex) = "border" /\ anchorless)
              => /\ ~BorderCanProcess(previous, subsequent)
                 /\ Dispatch(ForIndex) = {Skipped}
           /\ KindOf(ForIndex) \in {"vertex", "circle"}
              => Skipped \notin Dispatch(ForIndex)

\* An index the dispatcher skipped in the current pass is still in the
\* work-list and its slot is still Unresolved.
SkippedStaysInWorkList ==
    \A k \in 1..Len(offered) :
        offered[k][2] = "skipped"
        => /\ offered[k][1] \in ToProcess
           /\ At(vertices, offered[k][1]) = None
           /\ At(input_geometry_types, offered[k][1]) = "None"

\* The component texts of the chains whose skipped indices are followed: a
\* text of every kind, a Vertex out of the border's tolerance and a text no
\* grammar matches.
SkipTexts ==
    {Text("dms", 0, 1, 0, "", FALSE),
     Text("dms", 3760, 1, 0, "", FALSE),
     Text("CIRCLE", 1852, 0, 1, "", FALSE),
     Text("CIRCLE", 1852, 1, 1, "", FALSE),
     Text("ARC", 1852, 1, 1, "ccw", FALSE),
     Text("BORDER", 0, 0, 0, "", FALSE)}

InitSkip == InitChain(SkipTexts) /\ free = FreeIdle

\* parse_polygon runs to completion on a chain of SkipTexts.
LiveSpecSkip == InitSkip /\ [][Next]_vars /\ WF_vars(Next)

\* The last index offered is i and the dispatcher skipped it.
JustSkipped(i) == offered # <<>> /\ offered[Len(offered)] = <<i, "skipped">>

\* C25 (as claimed): an Arc or Border offered with an anchor equal to None is
\* skipped without raising and without being parsed, its slot stays
\* Unresolved, its index stays in the work-list and the index is offered
\* again in a later pass; Vertex and Circle text is never skipped.
C25_SkippedIsOfferedAgain ==
    /\ [](SkipsOnlyArcAndBorderWithoutAnchor /\ SkippedStaysInWorkList)
    /\ \A i \in 0..(MaxComponents - 1) :
          JustSkipped(i) ~> (Offering /\ ForIndex = i)

\* C25 (amended): as above, but the skipped index is offered again in a later
\* pass only if the run does not end with an error first: a pass that removes
\* no index ends the run with the no-progress error, and a component offered
\* later may raise.
C25_SkippedIsOfferedAgainOrRunFails ==
    /\ [](SkipsOnlyArcAndBorderWithoutAnchor /\ SkippedStaysInWorkList)
    /\ \A i \in 0..(MaxComponents - 1) :
          JustSkipped(i) ~> ((Offering /\ ForIndex = i) \/ pc = "raised")

\* An Arc at index 0, skipped in the first pass where no anchor is known, is
\* offered again in a later pass.
C25_Witness ==
    /\ Offering
    /\ ForIndex = 0
    /\ passes >= 2
    /\ KindOf(0) = "arc"
    /\ NumComponents >= 2

-----------------------------------------------------------------------------
(* Errors of flattening *)

\* C26 (as claimed): once every slot is resolved, flattening fails with an
\* assertion error exactly when some Border slot has a circular neighbour
\* whose recorded kind is not Vertex; when every circular neighbour of every
\* Border slot is a Vertex, flattening raises no error, wherever the Border
\* slots are (index 0 and index N-1 included).
C26_FlattenFailsOnlyByAssertion ==
    FlattenEntered
    => LET contract == \A i \in CircularEntryPoints :
                           At(input_geometry_types, i) = "vertex"
       IN  /\ raised = "AssertionError" <=> ~contract
           /\ contract => pc = "returned" /\ raised = "none"

-----------------------------------------------------------------------------
(* The no-progress error *)

\* C27 (as claimed): when a pass made no progress, the error given to the
\* caller names the indices that remain unresolved: the values its message
\* carries are the contents of the work-list at the time of the failure, not
\* their number.
C27_NoProgressErrorNamesIndices ==
    (pc = "raised" /\ raised = NoProgressError)
    => NoProgressMessageValues = component_indices_to_process

-----------------------------------------------------------------------------
(* Which chains resolve *)

\* Every component text matches one of the four grammars.
AllRecognized == \A i \in Indices : KindOf(i) # "None"

\* Some Arc or Border component has a circular neighbour that is an Arc or
\* Border component too (itself, when N = 1).
AnchoredNeighbours ==
    \E i \in Indices :
        /\ KindOf(i) \in {"arc", "border"}
        /\ \/ KindOf((i - 1) % NumComponents) \in {"arc", "border"}
           \/ KindOf((i + 1) % NumComponents) \in {"arc", "border"}

\* C28: a run on recognized texts in which no parser raises ends with an
\* empty work-list exactly when no Arc or Border component has a circular
\* neighbour that is an Arc or Border component; otherwise it ends with the
\* no-progress error.
C28_ResolvesIffAnchored ==
    (Terminated /\ AllRecognized /\ raised \notin ParserErrors)
    => /\ Len(component_indices_to_process) = 0 <=> ~AnchoredNeighbours
       /\ AnchoredNeighbours => pc = "raised" /\ raised = NoProgressError
       /\ ~AnchoredNeighbours => \A i \in Indices : Resolved(i)

\* The ring [Border, Vertex, Arc, Vertex] has returned a polygon.
C28_Witness ==
    /\ NumComponents = 4
    /\ KindOf(0) = "border" /\ KindOf(1) = "vertex"
    /\ KindOf(2) = "arc" /\ KindOf(3) = "vertex"
    /\ pc = "returned"
    /\ Len(component_indices_to_process) = 0

-----------------------------------------------------------------------------
(* Vertices elided next to a Border *)

\* The border vertices matched to the point of the Vertex slot v by the
\* provider's border of the Border at index b.
MatchedBorderVertices(b, v) ==
    LET border_points == get_border(At(geometry_components, b).x)
    IN  {At(border_points, j) : j \in nearest(border_points, At(vertices, v).pts[1])}

\* C29 (as claimed): whenever flattening leaves out a Vertex slot because it
\* is next to a Border slot, the resolved sequence of that Border is not
\* empty and begins (for the Vertex before the Border) or ends (for the
\* Vertex after it) with the border vertex matched to the Vertex left out,
\* also when the Border resolved to no segment.
C29_ElidedVertexHasStandIn ==
    pc = "returned"
    => \A b \in Indices :
          At(input_geometry_types, b) = "border"
          => /\ (b - 1) \in Indices
                => /\ At(vertices, b).pts # <<>>
                   /\ At(vertices, b).pts[1] \in MatchedBorderVertices(b, b - 1)
             /\ (b + 1) \in Indices
                => /\ At(vertices, b).pts # <<>>
                   /\ At(vertices, b).pts[Len(At(vertices, b).pts)]
                         \in MatchedBorderVertices(b, b + 1)

-----------------------------------------------------------------------------
(* Work-list, slots and kinds agree *)

\* C30: between two steps of the loop, an index is in the work-list exactly
\* when its slot holds no point sequence, and exactly when no kind is
\* recorded for it; the work-list has no duplicates and is in increasing
\* order; a recorded kind is the kind whose grammar matches the text.
C30_WorkListSlotsKindsAgree ==
    /\ \A i \in Indices :
          /\ i \in ToProcess <=> At(vertices, i) = None
          /\ At(vertices, i) = None <=> At(input_geometry_types, i) = "None"
          /\ At(input_geometry_types, i) # "None"
             => At(input_geometry_types, i) = KindOf(i)
    /\ ToProcess \subseteq Indices
    /\ \A k \in 1..(Len(component_indices_to_process) - 1) :
          component_indices_to_process[k] < component_indices_to_process[k + 1]

\* In a second or later pass an Arc and a Circle are resolved and an index
\* is still in the work-list.
C30_Witness ==
    /\ passes >= 2
    /\ pc = "for"
    /\ \E i \in Indices : At(input_geometry_types, i) = "arc"
    /\ Len(component_indices_to_process) >= 1
    /\ \E i \in Indices : At(input_geometry_types, i) = "circle"

====
